---- MODULE Spec2Model ----
(***************************************************************************)
(* State-machine model of the stXTZ staking dashboard pipeline:            *)
(*   src/src/api.ts        paginated fetch, normalisation, withdrawal      *)
(*                         resolver with cache, finalize matching          *)
(*   src/unnamed/part_000  processChartData (daily aggregation)            *)
(*   src/src/main.ts       init (page load: fetches, render, error panel)  *)
(*                                                                         *)
(* Amounts.  Raw feed amounts are integers (mutez).  A TEZ amount is the   *)
(* raw amount divided by 1_000_000; it is represented exactly as a         *)
(* fixed-point record [w |-> whole, f |-> millionths] with 0 <= f < 10^6   *)
(* and value w + f / 10^6 (w may be negative).                             *)
(*                                                                         *)
(* Timestamps.  An ISO timestamp "<date>T<clock>" is the record            *)
(* [date |-> d, clock |-> c]; dates are day numbers, whose numeric order   *)
(* is the lexicographic order of the fixed-width "YYYY-MM-DD" texts.       *)
(***************************************************************************)
EXTENDS Integers, Sequences, FiniteSets, TLC

VARIABLES
    \* ---- processChartData / fetchBakeryStaking (chart specification)
    chartPc,            \* "idle" | "init" | "fetched" | "done"
    bakeryData,         \* raw bakery feed, as fetchAllPages returned it
    bakeryOps,          \* result of fetchBakeryStaking
    stxtzOps,           \* result of fetchStXTZOperations handed to the chart
    chartData           \* result of processChartData

chartVars == <<chartPc, bakeryData, bakeryOps, stxtzOps, chartData>>

VARIABLES
    \* ---- fetchAllPages (pagination specification)
    fetchPc,            \* "idle" | "loop" | "await" | "returned" | "thrown"
    pageSize,           \* the pageSize argument
    offset,
    hasMore,
    allData,
    requested,          \* offsets of the requests issued so far, in order
    received            \* responses received so far, in order

fetchVars == <<fetchPc, pageSize, offset, hasMore, allData, requested, received>>

VARIABLES
    \* ---- finalize matching at the end of fetchStXTZOperations
    auditPc,                \* "idle" | "loop" | "done"
    finalizeAmounts,
    convertedWithdrawals,
    matchableWithdrawals,
    matchedFinalizes,
    unmatchedFinalizes,
    auditIdx                \* finalize amounts consumed by the for..of loop

auditVars == <<auditPc, finalizeAmounts, convertedWithdrawals, matchableWithdrawals,
               matchedFinalizes, unmatchedFinalizes, auditIdx>>

VARIABLES
    \* ---- fetchStXTZOperations (proxy specification)
    proxyPc,            \* "idle" | "start" | "inflight" | "pause" | "returned" | "thrown"
    pass,               \* page loads so far
    data,               \* the proxy feed, as fetchAllPages returned it
    operations,
    withdrawals,        \* {op, stxtzAmount}: op is the record's position in data
    localStorage,       \* the text stored under WITHDRAWAL_CACHE_KEY
    withdrawalCache,    \* key -> [amount, by]: the number stored, and (history,
                        \* never read by the code) the <<hash, counter>> of the
                        \* request whose lookup stored it
    batchStart,         \* the loop variable i
    tasks,              \* the callbacks of the batch in flight, in batch order;
                        \* w is the position of the callback's withdrawal
    cacheHits,
    cacheMisses

proxyVars == <<proxyPc, pass, data, operations, withdrawals, localStorage,
               withdrawalCache, batchStart, tasks, cacheHits, cacheMisses>>

VARIABLES
    \* ---- calculateWalletStats (wallet specification)
    walletPc,           \* "idle" | "loop" | "returned"
    walletOps,          \* the operations argument
    walletIdx,          \* operations consumed by the for..of loop
    walletMap,          \* the Map's values, in insertion order
    walletStats         \* the array returned

walletVars == <<walletPc, walletOps, walletIdx, walletMap, walletStats>>

VARIABLES
    \* ---- init (page load specification)
    loadPc,             \* "idle" | "awaiting" | "rendered" | "failed"
    bakeryFetch,        \* the promise of fetchBakeryStaking()
    stxtzFetch,         \* the promise of fetchStXTZOperations()
    holdersFetch,       \* the promise of fetchStXTZHolders()
    app                 \* what the #app element shows

loadVars == <<loadPc, bakeryFetch, stxtzFetch, holdersFetch, app>>

VARIABLES
    \* ---- fetchWithdrawalAmountByHash (resolver specification)
    resolvePc,          \* "idle" | "called" | "returned"
    detail,             \* what the detail request comes back with
    expectedStxtzAmount,
    xtzResult           \* the number | null returned

resolveVars == <<resolvePc, detail, expectedStxtzAmount, xtzResult>>

vars == <<chartVars, fetchVars, auditVars, proxyVars, walletVars, loadVars,
          resolveVars>>

----------------------------------------------------------------------------
(* Generic helpers                                                         *)

Null == "null"

Range(s) == {s[k] : k \in 1..Len(s)}

SeqsUpTo(S, n) == UNION {[1..k -> S] : k \in 0..n}

SetMin(S) == CHOOSE x \in S : \A y \in S : x <= y

RECURSIVE SortedSeqOf(_)
\* Array.from(set).sort() on date keys: ascending, one element per member
SortedSeqOf(S) ==
    IF S = {} THEN <<>>
    ELSE LET m == SetMin(S) IN <<m>> \o SortedSeqOf(S \ {m})

----------------------------------------------------------------------------
(* Fixed-point TEZ arithmetic (JavaScript numbers holding mutez / 10^6)    *)

MUTEZ_PER_TEZ == 1000000

Tez(w, f) == [w |-> w, f |-> f]
TezZero == Tez(0, 0)

\* op.amount / 1_000_000
MutezToTez(m) == Tez(m \div MUTEZ_PER_TEZ, m % MUTEZ_PER_TEZ)

TezAdd(a, b) ==
    LET s == a.f + b.f
    IN  Tez(a.w + b.w + (s \div MUTEZ_PER_TEZ), s % MUTEZ_PER_TEZ)

TezSub(a, b) ==
    LET d == a.f - b.f
    IN  IF d < 0 THEN Tez(a.w - b.w - 1, d + MUTEZ_PER_TEZ)
                 ELSE Tez(a.w - b.w, d)

TezLess(a, b) == a.w < b.w \/ (a.w = b.w /\ a.f < b.f)
TezLeq(a, b) == a = b \/ TezLess(a, b)
TezIsNeg(a) == a.w < 0

\* Math.abs
TezAbs(a) == IF TezIsNeg(a) THEN TezSub(TezZero, a) ELSE a

----------------------------------------------------------------------------
(* Timestamps                                                              *)

Timestamp(d) == [date |-> d, clock |-> "00:00:00Z"]
EmptyTimestamp == [date |-> 0, clock |-> ""]

\* truthiness of op.timestamp: the empty string is falsy
HasTimestamp(op) == op.timestamp # EmptyTimestamp

\* op.timestamp.split('T')[0]
DateOf(op) == op.timestamp.date

----------------------------------------------------------------------------
(* fetchBakeryStaking: normalisation of the raw bakery feed                *)

BakeryActions == {"stake", "unstake", "finalize"}

BakeryKeep(rec) == rec.action \in BakeryActions /\ rec.amount > 0

BakeryMap(rec) ==
    [timestamp |-> rec.timestamp,
     type      |-> rec.action,
     amount    |-> MutezToTez(rec.amount),
     source    |-> "bakery",
     sender    |-> Null]

RECURSIVE MapBakery(_)
MapBakery(s) ==
    IF s = <<>> THEN <<>> ELSE <<BakeryMap(Head(s))>> \o MapBakery(Tail(s))

\* data.filter(action).filter(amount > 0).map(...)
NormalizeBakery(feed) == MapBakery(SelectSeq(feed, BakeryKeep))

----------------------------------------------------------------------------
(* processChartData                                                        *)

ChartDateOp(op) == HasTimestamp(op) /\ op.type # "finalize"

\* variant: the date range taken over every operation, finalizes included
AllDatesOfEveryKind(bOps, sOps) ==
    {DateOf(op) : op \in {o \in Range(bOps \o sOps) : HasTimestamp(o)}}

\* allDates: the dates of the non-finalize operations of both sources
AllDates(bOps, sOps) ==
    {DateOf(op) : op \in {o \in Range(bOps \o sOps) : ChartDateOp(o)}}

SortedDates(bOps, sOps) == SortedSeqOf(AllDates(bOps, sOps))

ZeroDay ==
    [bakeryStake |-> TezZero, bakeryUnstake |-> TezZero, bakeryFinalize |-> TezZero,
     stxtzDeposit |-> TezZero, stxtzWithdraw |-> TezZero, stxtzFinalize |-> TezZero]

\* the counter an operation is accumulated into
CounterOf(src, type) ==
    IF src = "bakery"
    THEN CASE type = "stake"    -> "bakeryStake"
           [] type = "unstake"  -> "bakeryUnstake"
           [] type = "finalize" -> "bakeryFinalize"
           [] OTHER             -> Null
    ELSE CASE type = "stake"    -> "stxtzDeposit"
           [] type = "unstake"  -> "stxtzWithdraw"
           [] type = "finalize" -> "stxtzFinalize"
           [] OTHER             -> Null

\* variant: finalizes are not accumulated
AccumulateNoFinalize(daily, op, src) ==
    IF ~HasTimestamp(op) \/ DateOf(op) \notin DOMAIN daily
       \/ CounterOf(src, op.type) = Null \/ op.type = "finalize"
    THEN daily
    ELSE LET d == DateOf(op)
             c == CounterOf(src, op.type)
         IN  [daily EXCEPT ![d][c] = TezAdd(@, op.amount)]

\* body of the forEach callbacks: dailyData.get(date), if (existing) ...
Accumulate(daily, op, src) ==
    IF ~HasTimestamp(op) \/ DateOf(op) \notin DOMAIN daily
       \/ CounterOf(src, op.type) = Null
    THEN daily
    ELSE LET d == DateOf(op)
             c == CounterOf(src, op.type)
         IN  [daily EXCEPT ![d][c] = TezAdd(@, op.amount)]

RECURSIVE AccumulateAll(_, _, _)
AccumulateAll(daily, ops, src) ==
    IF ops = <<>> THEN daily
    ELSE AccumulateAll(Accumulate(daily, Head(ops), src), Tail(ops), src)

DailyData(bOps, sOps) ==
    LET init == [d \in AllDates(bOps, sOps) |-> ZeroDay]
    IN  AccumulateAll(AccumulateAll(init, bOps, "bakery"), sOps, "stxtz")

EmptyChart ==
    [labels |-> <<>>,
     bakeryStakes |-> <<>>, bakeryUnstakes |-> <<>>, bakeryFinalize |-> <<>>,
     stxtzDeposits |-> <<>>, stxtzWithdrawals |-> <<>>, stxtzFinalize |-> <<>>,
     bakeryBalance |-> <<>>, stxtzBalance |-> <<>>]

\* variant: the balance lowered by the unstake requests instead of the finalizes
BakeryBalanceStepByUnstake(running, day) ==
    TezAdd(running, TezSub(day.bakeryStake, day.bakeryUnstake))

\* runningBakeryBalance += data.bakeryStake - data.bakeryFinalize
BakeryBalanceStep(running, day) ==
    TezAdd(running, TezSub(day.bakeryStake, day.bakeryFinalize))

\* runningStxtzBalance += data.stxtzDeposit - data.stxtzFinalize
StxtzBalanceStep(running, day) ==
    TezAdd(running, TezSub(day.stxtzDeposit, day.stxtzFinalize))

RECURSIVE EmitDates(_, _, _, _, _)
\* sortedDates.forEach(date => { push ...; running balances })
EmitDates(dates, daily, runB, runS, out) ==
    IF dates = <<>> THEN out
    ELSE LET day  == daily[Head(dates)]
             nb   == BakeryBalanceStep(runB, day)
             ns   == StxtzBalanceStep(runS, day)
         IN  EmitDates(Tail(dates), daily, nb, ns,
               [labels           |-> Append(out.labels, Head(dates)),
                bakeryStakes     |-> Append(out.bakeryStakes, day.bakeryStake),
                bakeryUnstakes   |-> Append(out.bakeryUnstakes, day.bakeryUnstake),
                bakeryFinalize   |-> Append(out.bakeryFinalize, day.bakeryFinalize),
                stxtzDeposits    |-> Append(out.stxtzDeposits, day.stxtzDeposit),
                stxtzWithdrawals |-> Append(out.stxtzWithdrawals, day.stxtzWithdraw),
                stxtzFinalize    |-> Append(out.stxtzFinalize, day.stxtzFinalize),
                bakeryBalance    |-> Append(out.bakeryBalance, nb),
                stxtzBalance     |-> Append(out.stxtzBalance, ns)])

processChartData(bOps, sOps) ==
    EmitDates(SortedDates(bOps, sOps), DailyData(bOps, sOps),
              TezZero, TezZero, EmptyChart)

----------------------------------------------------------------------------
(* JSON values of a transaction detail                                     *)
(* A text is the sequence of its characters; an object lists its keys in   *)
(* insertion order, the order Object.keys enumerates.                      *)

Str(chars) == [t |-> "str", v |-> chars]
Arr(items) == [t |-> "arr", items |-> items]
Obj(keys, vals) == [t |-> "obj", keys |-> keys, vals |-> vals]
Undefined == [t |-> "undefined"]
InvalidJson == [t |-> "invalid"]

\* obj[key] (obj?.key on undefined)
Get(node, key) ==
    IF node.t = "obj" /\ \E k \in 1..Len(node.keys) : node.keys[k] = key
    THEN node.vals[CHOOSE k \in 1..Len(node.keys) : node.keys[k] = key]
    ELSE Undefined

\* JavaScript truthiness
Truthy(node) ==
    CASE node.t = "str" -> node.v # <<>>
      [] node.t \in {"arr", "obj"} -> TRUE
      [] OTHER -> FALSE

DigitChars == <<"0", "1", "2", "3", "4", "5", "6", "7", "8", "9">>
IsDigit(c) == \E d \in 1..10 : DigitChars[d] = c
DigitValue(c) == (CHOOSE d \in 1..10 : DigitChars[d] = c) - 1

RECURSIVE ParseDigits(_, _, _)
ParseDigits(chars, k, acc) ==
    IF k > Len(chars) \/ ~IsDigit(chars[k]) THEN acc
    ELSE ParseDigits(chars, k + 1, acc * 10 + DigitValue(chars[k]))

\* parseInt(text, 10) of a text that starts with a digit: the leading digits
ParseInt(chars) == ParseDigits(chars, 1, 0)

RECURSIVE NatToChars(_)
\* the decimal text of a natural number, as the indexer prints amounts
NatToChars(n) ==
    IF n < 10 THEN <<DigitChars[n + 1]>>
    ELSE NatToChars(n \div 10) \o <<DigitChars[(n % 10) + 1]>>

RECURSIVE FlattenEntries(_, _)
RECURSIVE findXtzAmountEntries(_)
\* findXtzAmountEntries(obj): every object with both amount fields, pre-order
findXtzAmountEntries(node) ==
    IF node.t \notin {"arr", "obj"} THEN <<>>
    ELSE LET own == IF Truthy(Get(node, "xtz_amount"))
                       /\ Truthy(Get(node, "stxtz_amount"))
                    THEN <<[xtz_amount   |-> Get(node, "xtz_amount"),
                            stxtz_amount |-> Get(node, "stxtz_amount")]>>
                    ELSE <<>>
             children == IF node.t = "arr" THEN node.items ELSE node.vals
         IN  own \o FlattenEntries(children, 1)
FlattenEntries(children, k) ==
    IF k > Len(children) THEN <<>>
    ELSE findXtzAmountEntries(children[k]) \o FlattenEntries(children, k + 1)

\* variant: the last matching entry
LastMatch(entries, expected) ==
    LET hits == {k \in 1..Len(entries) : ParseInt(entries[k].stxtz_amount.v) = expected}
    IN  IF hits = {} THEN 0 ELSE CHOOSE k \in hits : \A j \in hits : k >= j

\* entries.find(e => parseInt(e.stxtz_amount, 10) === expectedStxtzAmount)
FirstMatch(entries, expected) ==
    LET hits == {k \in 1..Len(entries) : ParseInt(entries[k].stxtz_amount.v) = expected}
    IN  IF hits = {} THEN 0 ELSE CHOOSE k \in hits : \A j \in hits : k <= j

\* a number | null result: <<n>> is the number n, <<>> is null
None == <<>>
Some(n) == <<n>>

\* the body of `for (const tx of transactions)` for one transaction:
\* the amount returned, or None to go on with the next transaction
ResolveInTx(tx, expected) ==
    IF Get(Get(tx, "parameter"), "entrypoint") # Str(<<"request_withdrawal">>)
    THEN None
    ELSE LET queue   == Get(Get(tx, "storage"), "pending_queue")
             last    == IF queue.t = "arr" /\ Len(queue.items) > 0
                        THEN queue.items[Len(queue.items)] ELSE Undefined
             entries == findXtzAmountEntries(tx)
             m       == FirstMatch(entries, expected)
         IN  IF /\ Truthy(Get(last, "xtz_amount"))
                /\ Truthy(Get(last, "stxtz_amount"))
                /\ ParseInt(Get(last, "stxtz_amount").v) = expected
             THEN Some(ParseInt(Get(last, "xtz_amount").v))
             ELSE IF Len(entries) > 0
                  THEN IF m >= 1 THEN Some(ParseInt(entries[m].xtz_amount.v))
                       ELSE Some(ParseInt(entries[Len(entries)].xtz_amount.v))
                  ELSE None

RECURSIVE ResolveInTxs(_, _, _)
ResolveInTxs(txs, k, expected) ==
    IF k > Len(txs) THEN None
    ELSE LET r == ResolveInTx(txs[k], expected)
         IN  IF r # None THEN r ELSE ResolveInTxs(txs, k + 1, expected)

\* fetchWithdrawalAmountByHash, given what the detail request came back with:
\* Some(mutez amount), or None for null
fetchWithdrawalAmountByHash(resp, expected) ==
    IF ~resp.net \/ ~resp.ok \/ resp.body = InvalidJson THEN None
    ELSE ResolveInTxs(IF resp.body.t = "arr" THEN resp.body.items ELSE <<resp.body>>,
                      1, expected)

----------------------------------------------------------------------------
(* fetchAllPages                                                           *)

PAGE_SIZE == 10000

\* most page requests of one fetch that are followed
MaxPages == 3
\* largest pageSize argument tried (the default PAGE_SIZE behaves alike)
MaxPageSize == 2

\* rows offset+1 .. offset+n of the queried listing
Rows(off, n) == [k \in 1..n |-> [row |-> off + k]]

\* What one page request can come back with.
\*   net   = FALSE : fetch() rejects (network failure)
\*   ok            : response.ok (the code never reads it)
\*   json          : what response.json() yields: "array", "string", "object",
\*                   or "invalid" (the body is not JSON, json() rejects)
\*   items         : the elements a spread of the value enumerates
Responses(off, size) ==
    {[net |-> FALSE, ok |-> FALSE, json |-> "invalid", items |-> <<>>]}
    \cup {[net |-> TRUE, ok |-> TRUE, json |-> "array", items |-> Rows(off, n)] :
            n \in 0..size}
    \cup {[net |-> TRUE, ok |-> FALSE, json |-> j, items |-> <<>>] :
            j \in {"invalid", "object", "array"}}
    \cup {[net |-> TRUE, ok |-> FALSE, json |-> "array", items |-> <<[error |-> "x"]>>],
          [net |-> TRUE, ok |-> FALSE, json |-> "string", items |-> <<[char |-> "e"]>>]}

\* await fetch(url); await response.json(); allData.push(...data) complete
\* without an exception
PageAccepted(resp) == resp.net /\ resp.json \in {"array", "string"}

\* variant: a full page taken for the last one
PageIsLastOrFull(len, size) == len <= size

\* if (data.length < pageSize) hasMore = false
PageIsLast(len, size) == len < size

FetchIdle ==
    /\ fetchPc = "idle"
    /\ pageSize = 0
    /\ offset = 0
    /\ hasMore = FALSE
    /\ allData = <<>>
    /\ requested = <<>>
    /\ received = <<>>

\* const allData = []; let offset = 0; let hasMore = true
FetchStart ==
    /\ fetchPc = "loop"
    /\ pageSize \in 1..MaxPageSize
    /\ offset = 0
    /\ hasMore = TRUE
    /\ allData = <<>>
    /\ requested = <<>>
    /\ received = <<>>

\* while (hasMore) { const response = await fetch(`...&limit=..&offset=..`)
FetchRequest ==
    /\ fetchPc = "loop"
    /\ hasMore
    /\ Len(requested) < MaxPages
    /\ requested' = Append(requested, offset)
    /\ fetchPc' = "await"
    /\ UNCHANGED <<pageSize, offset, hasMore, allData, received>>
    /\ UNCHANGED <<chartVars, auditVars, proxyVars>>
    /\ UNCHANGED <<walletVars, loadVars, resolveVars>>

\* the rest of the loop body, once the request is answered
FetchRespond ==
    /\ fetchPc = "await"
    /\ \E resp \in Responses(offset, pageSize) :
         /\ received' = Append(received, resp)
         /\ IF PageAccepted(resp)
            THEN /\ allData' = allData \o resp.items
                 /\ IF PageIsLast(Len(resp.items), pageSize)
                    THEN hasMore' = FALSE /\ offset' = offset
                    ELSE hasMore' = hasMore /\ offset' = offset + pageSize
                 /\ fetchPc' = "loop"
            ELSE /\ fetchPc' = "thrown"
                 /\ UNCHANGED <<allData, hasMore, offset>>
    /\ UNCHANGED <<pageSize, requested>>
    /\ UNCHANGED <<chartVars, auditVars, proxyVars>>
    /\ UNCHANGED <<walletVars, loadVars, resolveVars>>

\* return allData
FetchReturn ==
    /\ fetchPc = "loop"
    /\ ~hasMore
    /\ fetchPc' = "returned"
    /\ UNCHANGED <<pageSize, offset, hasMore, allData, requested, received>>
    /\ UNCHANGED <<chartVars, auditVars, proxyVars>>
    /\ UNCHANGED <<walletVars, loadVars, resolveVars>>

FetchNext == FetchRequest \/ FetchRespond \/ FetchReturn

----------------------------------------------------------------------------
(* Finalize matching (fetchStXTZOperations, after the cache is saved)      *)

\* const TOLERANCE = 0.1
TOLERANCE == Tez(0, 100000)

\* Math.abs(w - finalizeAmt) < TOLERANCE
WithinTolerance(w, finalizeAmt) == TezLess(TezAbs(TezSub(w, finalizeAmt)), TOLERANCE)

RECURSIVE FindIndexFrom(_, _, _)
FindIndexFrom(pool, finalizeAmt, k) ==
    IF k > Len(pool) THEN 0
    ELSE IF WithinTolerance(pool[k], finalizeAmt) THEN k
    ELSE FindIndexFrom(pool, finalizeAmt, k + 1)

\* variant: the last withdrawal within the tolerance
FindLastIndex(pool, finalizeAmt) ==
    LET hits == {k \in 1..Len(pool) : WithinTolerance(pool[k], finalizeAmt)}
    IN  IF hits = {} THEN 0 ELSE CHOOSE k \in hits : \A j \in hits : j <= k

\* matchableWithdrawals.findIndex(...): 1-based, 0 for JavaScript's -1
FindIndex(pool, finalizeAmt) == FindIndexFrom(pool, finalizeAmt, 1)

\* variant: the matched withdrawal stays in the pool
SpliceNothing(pool, idx) == pool

\* matchableWithdrawals.splice(matchIndex, 1)
Splice(pool, idx) ==
    [k \in 1..(Len(pool) - 1) |-> IF k < idx THEN pool[k] ELSE pool[k + 1]]

\* one iteration of for (const finalizeAmt of finalizeAmounts)
AuditStep(st, finalizeAmt) ==
    LET matchIndex == FindIndex(st.pool, finalizeAmt)
    IN  IF matchIndex >= 1
        THEN [matched   |-> st.matched + 1,
              unmatched |-> st.unmatched,
              pool      |-> Splice(st.pool, matchIndex)]
        ELSE [matched   |-> st.matched,
              unmatched |-> Append(st.unmatched, finalizeAmt),
              pool      |-> st.pool]

AuditIdle ==
    /\ auditPc = "idle"
    /\ finalizeAmounts = <<>>
    /\ convertedWithdrawals = <<>>
    /\ matchableWithdrawals = <<>>
    /\ matchedFinalizes = 0
    /\ unmatchedFinalizes = <<>>
    /\ auditIdx = 0

\* most finalize amounts / withdrawal amounts handed to one matching
MaxFinalizes == 3
MaxPool == 3

AuditFinalizeAmounts == {MutezToTez(10000000), MutezToTez(20000000)}
AuditWithdrawalAmounts ==
    {MutezToTez(9950000), MutezToTez(10020000), MutezToTez(20050000)}

\* let matchedFinalizes = 0; const unmatchedFinalizes = [];
\* const matchableWithdrawals = [...convertedWithdrawals]
AuditStart ==
    /\ auditPc = "loop"
    /\ finalizeAmounts \in SeqsUpTo(AuditFinalizeAmounts, MaxFinalizes)
    /\ convertedWithdrawals \in SeqsUpTo(AuditWithdrawalAmounts, MaxPool)
    /\ matchableWithdrawals = convertedWithdrawals
    /\ matchedFinalizes = 0
    /\ unmatchedFinalizes = <<>>
    /\ auditIdx = 0

AuditIterate ==
    /\ auditPc = "loop"
    /\ auditIdx < Len(finalizeAmounts)
    /\ LET st == AuditStep([matched   |-> matchedFinalizes,
                            unmatched |-> unmatchedFinalizes,
                            pool      |-> matchableWithdrawals],
                           finalizeAmounts[auditIdx + 1])
       IN  /\ matchedFinalizes' = st.matched
           /\ unmatchedFinalizes' = st.unmatched
           /\ matchableWithdrawals' = st.pool
    /\ auditIdx' = auditIdx + 1
    /\ UNCHANGED <<auditPc, finalizeAmounts, convertedWithdrawals>>
    /\ UNCHANGED <<chartVars, fetchVars, proxyVars>>
    /\ UNCHANGED <<walletVars, loadVars, resolveVars>>

\* the loop is over: the counts are logged
AuditFinish ==
    /\ auditPc = "loop"
    /\ auditIdx = Len(finalizeAmounts)
    /\ auditPc' = "done"
    /\ UNCHANGED <<finalizeAmounts, convertedWithdrawals, matchableWithdrawals,
                   matchedFinalizes, unmatchedFinalizes, auditIdx>>
    /\ UNCHANGED <<chartVars, fetchVars, proxyVars>>
    /\ UNCHANGED <<walletVars, loadVars, resolveVars>>

AuditNext == AuditIterate \/ AuditFinish

----------------------------------------------------------------------------
(* fetchStXTZOperations: normalisation, withdrawal resolver, cache         *)

BATCH_SIZE == 2

\* most page loads followed
MaxPasses == 2
\* most records of the proxy feed
MaxFeed == 3

\* `${op.hash}-${op.level}`
CacheKey(op) == <<op.hash, op.level>>

\* the request a record is: the pair the detail lookup is addressed with
RequestOf(op) == <<op.hash, op.counter>>

\* truthiness of withdrawalCache[cacheKey]: a missing entry and 0 are falsy
\* (cache, here and below, is the mapping itself)
CacheHit(cache, key) == key \in DOMAIN cache /\ cache[key].amount # TezZero

CachePut(cache, key, amount, by) ==
    [k \in DOMAIN cache \cup {key} |->
        IF k = key THEN [amount |-> amount, by |-> by] ELSE cache[k]]

\* variant: the cache written whatever the lookup gave
CacheAfterAlways(cache, op, xtzAmount, stxtzAmount) ==
    CachePut(cache, CacheKey(op),
             IF xtzAmount # None THEN MutezToTez(xtzAmount[1])
             ELSE MutezToTez(stxtzAmount),
             RequestOf(op))

\* if (xtzAmount !== null) withdrawalCache[cacheKey] = amountInTez
CacheAfter(cache, op, xtzAmount, stxtzAmount) ==
    IF xtzAmount # None
    THEN CachePut(cache, CacheKey(op), MutezToTez(xtzAmount[1]), RequestOf(op))
    ELSE cache

\* the amount the callback returns after the lookup
AmountAfter(xtzAmount, stxtzAmount) ==
    IF xtzAmount # None THEN MutezToTez(xtzAmount[1]) ELSE MutezToTez(stxtzAmount)

\* localStorage texts: nothing stored, a text that is no JSON, or the JSON
\* text of a value (JSON.stringify / JSON.parse carry a mapping of finite
\* numbers over unchanged)
NoItem == [kind |-> "absent"]
GarbageText == [kind |-> "garbage"]
JsonText(value) == [kind |-> "json", value |-> value]

\* the values the cache variable can hold: a mapping from keys to amounts, or
\* the null that JSON.parse("null") yields
JsMap(m) == [t |-> "map", m |-> m]
JsNull == [t |-> "null"]

NoEntries == [k \in {} |-> [amount |-> TezZero, by |-> <<>>]]
EmptyCache == JsMap(NoEntries)

\* loadWithdrawalCache: cached ? JSON.parse(cached) : {}, {} when it throws
loadWithdrawalCache(stored) ==
    IF stored.kind = "json" THEN stored.value ELSE EmptyCache

\* JSON.stringify(cache)
Stringify(cache) == JsonText(cache)

\* parameter.value is a text: parseInt, any other value: 0
StxtzAmountOf(rec) ==
    IF rec.value.t = "str" THEN ParseInt(rec.value.v) ELSE 0

RECURSIVE NormalizeProxy(_, _, _, _)
\* for (const op of data), from position k on: the operations and the
\* withdrawals collected
NormalizeProxy(feed, k, ops, wds) ==
    IF k > Len(feed) THEN [operations |-> ops, withdrawals |-> wds]
    ELSE LET op == feed[k] IN
         CASE op.entrypoint = "deposit" ->
                NormalizeProxy(feed, k + 1,
                    Append(ops, [timestamp |-> op.timestamp, type |-> "stake",
                                 amount |-> MutezToTez(op.amount),
                                 source |-> "stxtz", sender |-> op.sender]),
                    wds)
           [] op.entrypoint = "request_withdrawal" ->
                NormalizeProxy(feed, k + 1, ops,
                    IF StxtzAmountOf(op) > 0
                    THEN Append(wds, [op |-> k, stxtzAmount |-> StxtzAmountOf(op)])
                    ELSE wds)
           [] op.entrypoint = "finalize_withdrawal" ->
                NormalizeProxy(feed, k + 1,
                    IF op.amount > 0
                    THEN Append(ops, [timestamp |-> op.timestamp, type |-> "finalize",
                                      amount |-> MutezToTez(op.amount),
                                      source |-> "stxtz", sender |-> op.sender])
                    ELSE ops,
                    wds)
           [] OTHER -> NormalizeProxy(feed, k + 1, ops, wds)

IsFinalize(op) == op.type = "finalize"

RECURSIVE Amounts(_)
Amounts(ops) == IF ops = <<>> THEN <<>> ELSE <<Head(ops).amount>> \o Amounts(Tail(ops))

\* operations.filter(op => op.type === 'finalize').map(op => op.amount)
FinalizeAmountsOf(ops) == Amounts(SelectSeq(ops, IsFinalize))

RECURSIVE RunAudit(_, _, _)
\* the whole matching loop
RunAudit(st, fins, k) ==
    IF k > Len(fins) THEN st ELSE RunAudit(AuditStep(st, fins[k]), fins, k + 1)

\* the synchronous part of one callback of batch.map: a cache hit is answered
\* at once, a miss waits for its timer (index * 300 ms); from is the `by` of
\* the entry a hit read
TaskFor(cache, feed, wds, w) ==
    LET key == CacheKey(feed[wds[w].op])
    IN  IF CacheHit(cache, key)
        THEN [pc |-> "done", how |-> "hit", w |-> w, amount |-> cache[key].amount,
              resp |-> "none", from |-> cache[key].by]
        ELSE [pc |-> "timer", how |-> "miss", w |-> w, amount |-> TezZero,
              resp |-> "none", from |-> <<>>]

\* variant: no slice, every remaining withdrawal is dispatched at once
BatchTasksUnsliced(cache, feed, wds, i) ==
    [k \in 1..(Len(wds) - i) |-> TaskFor(cache, feed, wds, i + k)]

\* withdrawals.slice(i, i + BATCH_SIZE).map(async ...)
BatchTasks(cache, feed, wds, i) ==
    LET n == IF Len(wds) - i < BATCH_SIZE THEN Len(wds) - i ELSE BATCH_SIZE
    IN  [k \in 1..n |-> TaskFor(cache, feed, wds, i + k)]

HitsIn(ts) == Cardinality({k \in 1..Len(ts) : ts[k].how = "hit"})

RECURSIVE UnstakeOpsResolvedOnly(_, _, _, _)
\* variant: a request whose lookup failed yields no operation
UnstakeOpsResolvedOnly(ts, feed, wds, k) ==
    IF k > Len(ts) THEN <<>>
    ELSE (IF ts[k].how = "fallback" THEN <<>>
          ELSE <<[timestamp |-> feed[wds[ts[k].w].op].timestamp, type |-> "unstake",
                  amount |-> ts[k].amount, source |-> "stxtz",
                  sender |-> feed[wds[ts[k].w].op].sender]>>)
         \o UnstakeOpsResolvedOnly(ts, feed, wds, k + 1)

RECURSIVE UnstakeOps(_, _, _, _)
\* for (const result of results) operations.push({... type: 'unstake' ...})
UnstakeOps(ts, feed, wds, k) ==
    IF k > Len(ts) THEN <<>>
    ELSE <<[timestamp |-> feed[wds[ts[k].w].op].timestamp, type |-> "unstake",
            amount |-> ts[k].amount, source |-> "stxtz",
            sender |-> feed[wds[ts[k].w].op].sender]>>
         \o UnstakeOps(ts, feed, wds, k + 1)

ProxyIdle ==
    /\ proxyPc = "idle"
    /\ pass = 0
    /\ data = <<>>
    /\ operations = <<>>
    /\ withdrawals = <<>>
    /\ localStorage = NoItem
    /\ withdrawalCache = EmptyCache
    /\ batchStart = 0
    /\ tasks = <<>>
    /\ cacheHits = 0
    /\ cacheMisses = 0

\* The transactions of the proxy contract, oldest first.  opA carries two
\* withdrawal requests (one operation group, one block level, two counters).
Tx(entrypoint, hash, counter, level, day, amount, value, sender) ==
    [entrypoint |-> entrypoint, hash |-> hash, counter |-> counter,
     level |-> level, timestamp |-> Timestamp(day), amount |-> amount,
     value |-> value, sender |-> sender]

Unit == Obj(<<>>, <<>>)

Chain ==
    <<Tx("deposit", "opD", 1, 10, 1, 3000000, Unit, "tz1a"),
      Tx("deposit", "opE", 1, 11, 1, 0, Unit, "tz1b"),
      Tx("request_withdrawal", "opA", 1, 12, 2, 0, Str(NatToChars(2000000)), "tz1a"),
      Tx("request_withdrawal", "opA", 2, 12, 2, 0, Str(NatToChars(1000000)), "tz1b"),
      Tx("request_withdrawal", "opB", 3, 13, 3, 0, Str(NatToChars(2000000)), Null),
      Tx("request_withdrawal", "opC", 4, 14, 3, 0, Str(NatToChars(0)), "tz1a"),
      Tx("finalize_withdrawal", "opF", 5, 15, 3, 2100000, Unit, "tz1a"),
      Tx("finalize_withdrawal", "opG", 6, 16, 3, 0, Unit, "tz1b")>>

RECURSIVE Pick(_, _, _)
\* the records of s at the positions in idx, in the order of s
Pick(s, idx, k) ==
    IF k > Len(s) THEN <<>>
    ELSE (IF k \in idx THEN <<s[k]>> ELSE <<>>) \o Pick(s, idx, k + 1)

\* the feeds: what the listing returns of the chain, oldest first
Feeds ==
    {Pick(Chain, idx, 1) :
        idx \in {x \in SUBSET (1..Len(Chain)) : Cardinality(x) <= MaxFeed}}

\* Transaction details the lookup can come back with
QueueEntry(xtz, stxtz) ==
    Obj(<<"xtz_amount", "stxtz_amount">>,
        <<Str(NatToChars(xtz)), Str(NatToChars(stxtz))>>)

TxDetail(entrypoint, queue) ==
    Obj(<<"hash", "parameter", "storage">>,
        <<Str(<<"op">>),
          Obj(<<"entrypoint", "value">>, <<Str(<<entrypoint>>), Str(<<"1">>)>>),
          Obj(<<"total_supply", "pending_queue">>, <<Str(<<"9">>), Arr(queue)>>)>>)

HttpOk(body) == [net |-> TRUE, ok |-> TRUE, body |-> body]

DetailResponseIds ==
    {"networkError", "notFound", "queue2", "queue1", "queueZero", "noAmounts"}

DetailTable == [id \in DetailResponseIds |->
    CASE id = "networkError" -> [net |-> FALSE, ok |-> FALSE, body |-> InvalidJson]
      [] id = "notFound"     -> [net |-> TRUE, ok |-> FALSE, body |-> InvalidJson]
      [] id = "queue2" ->
            HttpOk(TxDetail("request_withdrawal", <<QueueEntry(2100000, 2000000)>>))
      [] id = "queue1" ->
            HttpOk(TxDetail("request_withdrawal", <<QueueEntry(1050000, 1000000)>>))
      [] id = "queueZero" ->
            HttpOk(TxDetail("request_withdrawal", <<QueueEntry(0, 2000000)>>))
      [] id = "noAmounts" ->
            HttpOk(TxDetail("request_withdrawal", <<>>))]

DetailResponse(id) == DetailTable[id]

\* the request could not be resolved: no answer, a non-success status, or no
\* entry with both amount fields
FailedLookup(id) == id \in {"networkError", "notFound", "noAmounts"}

ProxyStart ==
    /\ proxyPc = "start"
    /\ pass = 1
    /\ data \in Feeds
    /\ operations = <<>>
    /\ withdrawals = <<>>
    /\ localStorage \in {NoItem, GarbageText, JsonText(JsNull)}
    /\ withdrawalCache = EmptyCache
    /\ batchStart = 0
    /\ tasks = <<>>
    /\ cacheHits = 0
    /\ cacheMisses = 0

\* saveWithdrawalCache (setItem may throw: the write is dropped), the finalize
\* matching, return operations
Finish(cache, converted, fins) ==
    /\ localStorage' \in {Stringify(cache), localStorage}
    /\ LET st == RunAudit([matched |-> 0, unmatched |-> <<>>, pool |-> converted],
                          fins, 1)
       IN  /\ matchedFinalizes' = st.matched
           /\ unmatchedFinalizes' = st.unmatched
           /\ matchableWithdrawals' = st.pool
    /\ auditIdx' = Len(fins)
    /\ auditPc' = "done"
    /\ proxyPc' = "returned"

\* from the feed to the first await: normalisation, cache load, first batch
ProxyBegin ==
    /\ proxyPc = "start"
    /\ LET n     == NormalizeProxy(data, 1, <<>>, <<>>)
           cache == loadWithdrawalCache(localStorage)
           fins  == FinalizeAmountsOf(n.operations)
       IN  /\ operations' = n.operations
           /\ withdrawals' = n.withdrawals
           /\ finalizeAmounts' = fins
           /\ convertedWithdrawals' = <<>>
           /\ withdrawalCache' = cache
           /\ cacheMisses' = 0
           /\ batchStart' = 0
           /\ IF n.withdrawals = <<>>
              THEN /\ Finish(cache, <<>>, fins)
                   /\ tasks' = <<>>
                   /\ cacheHits' = 0
              ELSE IF cache = JsNull
              THEN \* withdrawalCache[cacheKey] on null: TypeError in every callback
                   /\ proxyPc' = "thrown"
                   /\ tasks' = <<>>
                   /\ cacheHits' = 0
                   /\ UNCHANGED <<localStorage, matchedFinalizes, unmatchedFinalizes,
                                  matchableWithdrawals, auditIdx, auditPc>>
              ELSE /\ tasks' = BatchTasks(cache.m, data, n.withdrawals, 0)
                   /\ cacheHits' = HitsIn(tasks')
                   /\ proxyPc' = "inflight"
                   /\ UNCHANGED <<localStorage, matchedFinalizes, unmatchedFinalizes,
                                  matchableWithdrawals, auditIdx, auditPc>>
    /\ UNCHANGED <<pass, data>>
    /\ UNCHANGED <<chartVars, fetchVars>>
    /\ UNCHANGED <<walletVars, loadVars, resolveVars>>

\* the timer of a callback fires: cacheMisses++, the detail request goes out
TimerFire(k) ==
    /\ proxyPc = "inflight"
    /\ tasks[k].pc = "timer"
    /\ \A j \in 1..(k - 1) : tasks[j].pc # "timer"
    /\ tasks' = [tasks EXCEPT ![k].pc = "lookup"]
    /\ cacheMisses' = cacheMisses + 1
    /\ UNCHANGED <<proxyPc, pass, data, operations, withdrawals, localStorage,
                   withdrawalCache, batchStart, cacheHits>>
    /\ UNCHANGED <<chartVars, fetchVars, auditVars>>
    /\ UNCHANGED <<walletVars, loadVars, resolveVars>>

\* the detail request is answered: the rest of the callback
LookupRespond(k) ==
    /\ proxyPc = "inflight"
    /\ tasks[k].pc = "lookup"
    /\ \E id \in DetailResponseIds :
         LET wd        == withdrawals[tasks[k].w]
             op        == data[wd.op]
             xtzAmount == fetchWithdrawalAmountByHash(DetailResponse(id), wd.stxtzAmount)
             amount    == AmountAfter(xtzAmount, wd.stxtzAmount)
         IN  /\ withdrawalCache' =
                  JsMap(CacheAfter(withdrawalCache.m, op, xtzAmount, wd.stxtzAmount))
             /\ tasks' = [tasks EXCEPT ![k] =
                            [pc |-> "done",
                             how |-> IF xtzAmount # None THEN "resolved" ELSE "fallback",
                             w |-> tasks[k].w, amount |-> amount, resp |-> id,
                             from |-> <<>>]]
    /\ UNCHANGED <<proxyPc, pass, data, operations, withdrawals, localStorage,
                   batchStart, cacheHits, cacheMisses>>
    /\ UNCHANGED <<chartVars, fetchVars, auditVars>>
    /\ UNCHANGED <<walletVars, loadVars, resolveVars>>

\* await Promise.all(...) continues: the results are pushed in batch order,
\* then the pause before the next batch, or the end of the pass
BatchJoin ==
    /\ proxyPc = "inflight"
    /\ \A k \in 1..Len(tasks) : tasks[k].pc = "done"
    /\ LET results   == UnstakeOps(tasks, data, withdrawals, 1)
           ops       == operations \o results
           converted == convertedWithdrawals \o Amounts(results)
       IN  /\ operations' = ops
           /\ convertedWithdrawals' = converted
           /\ IF batchStart + BATCH_SIZE < Len(withdrawals)
              THEN /\ proxyPc' = "pause"
                   /\ UNCHANGED <<localStorage, matchedFinalizes, unmatchedFinalizes,
                                  matchableWithdrawals, auditIdx, auditPc>>
              ELSE Finish(withdrawalCache, converted, finalizeAmounts)
    /\ tasks' = <<>>
    /\ UNCHANGED <<pass, data, withdrawals, withdrawalCache, batchStart, cacheHits,
                   cacheMisses, finalizeAmounts>>
    /\ UNCHANGED <<chartVars, fetchVars>>
    /\ UNCHANGED <<walletVars, loadVars, resolveVars>>

\* the 500 ms pause is over: i += BATCH_SIZE, the next batch is dispatched
PauseElapsed ==
    /\ proxyPc = "pause"
    /\ batchStart' = batchStart + BATCH_SIZE
    /\ tasks' = BatchTasks(withdrawalCache.m, data, withdrawals, batchStart')
    /\ cacheHits' = cacheHits + HitsIn(tasks')
    /\ proxyPc' = "inflight"
    /\ UNCHANGED <<pass, data, operations, withdrawals, localStorage,
                   withdrawalCache, cacheMisses>>
    /\ UNCHANGED <<chartVars, fetchVars, auditVars>>
    /\ UNCHANGED <<walletVars, loadVars, resolveVars>>

\* the page is loaded again: the same feed, the stored cache text is kept
NewPass ==
    /\ proxyPc \in {"returned", "thrown"}
    /\ pass < MaxPasses
    /\ pass' = pass + 1
    /\ proxyPc' = "start"
    /\ operations' = <<>>
    /\ withdrawals' = <<>>
    /\ withdrawalCache' = EmptyCache
    /\ batchStart' = 0
    /\ tasks' = <<>>
    /\ cacheHits' = 0
    /\ cacheMisses' = 0
    /\ auditPc' = "idle"
    /\ finalizeAmounts' = <<>>
    /\ convertedWithdrawals' = <<>>
    /\ matchableWithdrawals' = <<>>
    /\ matchedFinalizes' = 0
    /\ unmatchedFinalizes' = <<>>
    /\ auditIdx' = 0
    /\ UNCHANGED <<data, localStorage>>
    /\ UNCHANGED <<chartVars, fetchVars>>
    /\ UNCHANGED <<walletVars, loadVars, resolveVars>>

ProxyNext ==
    \/ ProxyBegin
    \/ \E k \in DOMAIN tasks : TimerFire(k)
    \/ \E k \in DOMAIN tasks : LookupRespond(k)
    \/ BatchJoin
    \/ PauseElapsed
    \/ NewPass

----------------------------------------------------------------------------
(* Components at rest                                                      *)

\* a promise: pending, fulfilled with a value, or rejected
Pending == [state |-> "pending"]
Fulfilled(value) == [state |-> "fulfilled", value |-> value]
Rejected == [state |-> "rejected"]

\* showLoading(): the spinner; no section of the dashboard is rendered
LoadingView == [view |-> "loading"]

WalletIdle ==
    /\ walletPc = "idle"
    /\ walletOps = <<>>
    /\ walletIdx = 0
    /\ walletMap = <<>>
    /\ walletStats = <<>>

LoadIdle ==
    /\ loadPc = "idle"
    /\ bakeryFetch = Pending
    /\ stxtzFetch = Pending
    /\ holdersFetch = Pending
    /\ app = LoadingView

ResolveIdle ==
    /\ resolvePc = "idle"
    /\ detail = [net |-> FALSE, ok |-> FALSE, body |-> InvalidJson]
    /\ expectedStxtzAmount = 0
    /\ xtzResult = None

----------------------------------------------------------------------------
(* calculateWalletStats                                                    *)

\* most operations handed to one call
MaxWalletOps == 2

NewWallet(address) ==
    [address |-> address, totalDeposited |-> TezZero, totalWithdrawn |-> TezZero,
     totalFinalized |-> TezZero, netPosition |-> TezZero, depositCount |-> 0,
     withdrawCount |-> 0, finalizeCount |-> 0]

\* if (op.source !== 'stxtz' || !op.sender) continue
WalletSkips(op) == op.source # "stxtz" \/ op.sender = Null

\* the position of the sender's record among the Map's values, 0 if none
WalletIndex(map, address) ==
    IF \E k \in 1..Len(map) : map[k].address = address
    THEN CHOOSE k \in 1..Len(map) : map[k].address = address
    ELSE 0

\* the three branches on op.type
WalletAdd(wallet, op) ==
    CASE op.type = "stake" ->
            [wallet EXCEPT !.totalDeposited = TezAdd(@, op.amount),
                           !.depositCount = @ + 1]
      [] op.type = "unstake" ->
            [wallet EXCEPT !.totalWithdrawn = TezAdd(@, op.amount),
                           !.withdrawCount = @ + 1]
      [] op.type = "finalize" ->
            [wallet EXCEPT !.totalFinalized = TezAdd(@, op.amount),
                           !.finalizeCount = @ + 1]
      [] OTHER -> wallet

\* variant: the net position also loses what was finalized
WalletNetLessFinalized(wallet) ==
    [wallet EXCEPT !.netPosition =
        TezSub(TezSub(wallet.totalDeposited, wallet.totalWithdrawn),
               wallet.totalFinalized)]

\* wallet.netPosition = wallet.totalDeposited - wallet.totalWithdrawn
WalletNet(wallet) ==
    [wallet EXCEPT !.netPosition = TezSub(wallet.totalDeposited, wallet.totalWithdrawn)]

\* one iteration of the loop body on the Map's values
WalletApply(map, op) ==
    IF WalletSkips(op) THEN map
    ELSE LET with == IF WalletIndex(map, op.sender) = 0
                     THEN Append(map, NewWallet(op.sender)) ELSE map
             k    == WalletIndex(with, op.sender)
         IN  [with EXCEPT ![k] = WalletNet(WalletAdd(with[k], op))]

RECURSIVE InsertByNet(_, _)
\* insertion that keeps records of equal net position in their order
InsertByNet(sorted, wallet) ==
    IF sorted = <<>> THEN <<wallet>>
    ELSE IF TezLess(Head(sorted).netPosition, wallet.netPosition)
         THEN <<wallet>> \o sorted
         ELSE <<Head(sorted)>> \o InsertByNet(Tail(sorted), wallet)

RECURSIVE SortByNet(_, _)
\* values.sort((a, b) => b.netPosition - a.netPosition): highest first, stable
SortByNet(map, k) ==
    IF k = 0 THEN <<>>
    ELSE InsertByNet(SortByNet(map, k - 1), map[k])

WalletSenders == {"tz1a", "tz1b", Null}
WalletAmounts == {MutezToTez(1500000), MutezToTez(3000000)}

WalletOperations ==
    [timestamp : {Timestamp(1)},
     type      : {"stake", "unstake", "finalize"},
     amount    : WalletAmounts,
     source    : {"stxtz", "bakery"},
     sender    : WalletSenders]

WalletStart ==
    /\ walletPc = "loop"
    /\ walletOps \in SeqsUpTo(WalletOperations, MaxWalletOps)
    /\ walletIdx = 0
    /\ walletMap = <<>>
    /\ walletStats = <<>>

\* for (const op of operations): one iteration
WalletIterate ==
    /\ walletPc = "loop"
    /\ walletIdx < Len(walletOps)
    /\ walletIdx' = walletIdx + 1
    /\ walletMap' = WalletApply(walletMap, walletOps[walletIdx'])
    /\ UNCHANGED <<walletPc, walletOps, walletStats>>
    /\ UNCHANGED <<chartVars, fetchVars, auditVars, proxyVars, loadVars, resolveVars>>

\* return Array.from(walletMap.values()).sort(...)
WalletReturn ==
    /\ walletPc = "loop"
    /\ walletIdx = Len(walletOps)
    /\ walletStats' = SortByNet(walletMap, Len(walletMap))
    /\ walletPc' = "returned"
    /\ UNCHANGED <<walletOps, walletIdx, walletMap>>
    /\ UNCHANGED <<chartVars, fetchVars, auditVars, proxyVars, loadVars, resolveVars>>

WalletNext == WalletIterate \/ WalletReturn

\* calculateWalletStats(operations) as one call
calculateWalletStats(ops) ==
    LET RECURSIVE Run(_, _)
        Run(map, k) == IF k > Len(ops) THEN map ELSE Run(WalletApply(map, ops[k]), k + 1)
        map == Run(<<>>, 1)
    IN  SortByNet(map, Len(map))

----------------------------------------------------------------------------
(* init: the page load                                                     *)

RECURSIVE TotalOf(_, _)
\* operations.filter(op => op.type === type).reduce((sum, op) => sum + op.amount, 0)
TotalOf(ops, type) ==
    IF ops = <<>> THEN TezZero
    ELSE IF Head(ops).type = type
         THEN TezAdd(TotalOf(Tail(ops), type), Head(ops).amount)
         ELSE TotalOf(Tail(ops), type)

CountOf(ops, type) == Cardinality({k \in 1..Len(ops) : ops[k].type = type})

calculateStats(ops) ==
    [totalStaked    |-> TotalOf(ops, "stake"),
     totalUnstaked  |-> TotalOf(ops, "unstake"),
     totalFinalized |-> TotalOf(ops, "finalize"),
     stakeCount     |-> CountOf(ops, "stake"),
     unstakeCount   |-> CountOf(ops, "unstake"),
     finalizeCount  |-> CountOf(ops, "finalize"),
     netStaked      |-> TezSub(TotalOf(ops, "stake"), TotalOf(ops, "unstake"))]

\* the catch block: the error panel replaces everything in #app
ErrorView == [view |-> "error"]

\* the try block after the await: the three sections of the dashboard
Dashboard(bOps, sOps, holders) ==
    [view        |-> "dashboard",
     stats       |-> [bakery  |-> calculateStats(bOps),
                      stxtz   |-> calculateStats(sOps),
                      wallets |-> calculateWalletStats(sOps)],
     leaderboard |-> [wallets |-> calculateWalletStats(sOps), holders |-> holders],
     chart       |-> processChartData(bOps, sOps)]

\* variant: the await continues once no promise is pending
PromiseAllSettled(promises) == \A q \in promises : q.state # "pending"

\* Promise.all fulfils when every promise has fulfilled
PromiseAllFulfilled(promises) == \A q \in promises : q.state = "fulfilled"

\* Promise.all rejects as soon as one promise has rejected
PromiseAllRejected(promises) == \E q \in promises : q.state = "rejected"

\* the element of the awaited array for one promise
Awaited(promise) == IF promise.state = "fulfilled" THEN promise.value ELSE <<>>

\* what the three fetches can resolve with
BakeryResults ==
    {NormalizeBakery(feed) :
        feed \in {<<>>, <<[timestamp |-> Timestamp(1), action |-> "stake",
                           amount |-> 5000000]>>}}

StxtzResults ==
    LET dep == [timestamp |-> Timestamp(1), type |-> "stake",
                amount |-> MutezToTez(3000000), source |-> "stxtz", sender |-> "tz1a"]
        wdr == [timestamp |-> Timestamp(2), type |-> "unstake",
                amount |-> MutezToTez(1500000), source |-> "stxtz", sender |-> "tz1a"]
    IN  {<<>>, <<dep>>, <<dep, wdr>>}

HoldersResults == {<<>>, <<[address |-> "tz1a", balance |-> 3000000]>>}

\* init() up to the await: the spinner is shown, the three fetches are started
LoadStart ==
    /\ loadPc = "awaiting"
    /\ bakeryFetch = Pending
    /\ stxtzFetch = Pending
    /\ holdersFetch = Pending
    /\ app = LoadingView

\* fetchBakeryStaking() settles
BakerySettles ==
    /\ loadPc # "idle"
    /\ bakeryFetch = Pending
    /\ bakeryFetch' \in {Fulfilled(v) : v \in BakeryResults} \cup {Rejected}
    /\ UNCHANGED <<loadPc, stxtzFetch, holdersFetch, app>>
    /\ UNCHANGED <<chartVars, fetchVars, auditVars, proxyVars, walletVars, resolveVars>>

\* fetchStXTZOperations() settles
StxtzSettles ==
    /\ loadPc # "idle"
    /\ stxtzFetch = Pending
    /\ stxtzFetch' \in {Fulfilled(v) : v \in StxtzResults} \cup {Rejected}
    /\ UNCHANGED <<loadPc, bakeryFetch, holdersFetch, app>>
    /\ UNCHANGED <<chartVars, fetchVars, auditVars, proxyVars, walletVars, resolveVars>>

\* fetchStXTZHolders() settles
HoldersSettle ==
    /\ loadPc # "idle"
    /\ holdersFetch = Pending
    /\ holdersFetch' \in {Fulfilled(v) : v \in HoldersResults} \cup {Rejected}
    /\ UNCHANGED <<loadPc, bakeryFetch, stxtzFetch, app>>
    /\ UNCHANGED <<chartVars, fetchVars, auditVars, proxyVars, walletVars, resolveVars>>

\* the await yields the three results: statistics, leaderboard and chart
LoadRender ==
    /\ loadPc = "awaiting"
    /\ PromiseAllFulfilled({bakeryFetch, stxtzFetch, holdersFetch})
    /\ app' = Dashboard(Awaited(bakeryFetch), Awaited(stxtzFetch), Awaited(holdersFetch))
    /\ loadPc' = "rendered"
    /\ UNCHANGED <<bakeryFetch, stxtzFetch, holdersFetch>>
    /\ UNCHANGED <<chartVars, fetchVars, auditVars, proxyVars, walletVars, resolveVars>>

\* the await throws: the catch block
LoadFail ==
    /\ loadPc = "awaiting"
    /\ PromiseAllRejected({bakeryFetch, stxtzFetch, holdersFetch})
    /\ app' = ErrorView
    /\ loadPc' = "failed"
    /\ UNCHANGED <<bakeryFetch, stxtzFetch, holdersFetch>>
    /\ UNCHANGED <<chartVars, fetchVars, auditVars, proxyVars, walletVars, resolveVars>>

LoadNext == BakerySettles \/ StxtzSettles \/ HoldersSettle \/ LoadRender \/ LoadFail

----------------------------------------------------------------------------
(* fetchWithdrawalAmountByHash on the details the indexer can return       *)

\* most entries in the withdrawal queue of a detail
MaxQueue == 2

\* the queue entries: (xtz_amount, stxtz_amount)
QueueEntries ==
    {QueueEntry(1050000, 1000000), QueueEntry(2100000, 2000000),
     QueueEntry(2200000, 2000000), QueueEntry(3150000, 3000000)}

\* storage.pending_queue: no such field, a value that is no list, or a list
PendingQueues ==
    {Undefined, Str(<<"7">>)} \cup {Arr(q) : q \in SeqsUpTo(QueueEntries, MaxQueue)}

\* the diffs of the transaction: none, or one carrying an entry
DiffsOf(entry) ==
    Arr(<<Obj(<<"bigmap", "content">>,
              <<Str(<<"7">>), Obj(<<"key", "value">>, <<Str(<<"1">>), entry>>)>>)>>)

DetailDiffs == {Undefined} \cup {DiffsOf(e) : e \in QueueEntries}

\* one transaction of the detail
DetailTx(entrypoint, queue, diffs) ==
    LET storage == IF queue = Undefined
                   THEN Obj(<<"total_supply">>, <<Str(<<"9">>)>>)
                   ELSE Obj(<<"total_supply", "pending_queue">>, <<Str(<<"9">>), queue>>)
        param   == Obj(<<"entrypoint", "value">>, <<Str(<<entrypoint>>), Str(<<"1">>)>>)
    IN  IF diffs = Undefined
        THEN Obj(<<"hash", "parameter", "storage">>, <<Str(<<"op">>), param, storage>>)
        ELSE Obj(<<"hash", "parameter", "storage", "diffs">>,
                 <<Str(<<"op">>), param, storage, diffs>>)

\* an internal transaction of the same operation: another entrypoint, no entry
InternalTx == DetailTx("transfer", Undefined, Undefined)

\* the body: the transaction itself, or the list of the operation's transactions
DetailBodies(tx) == {tx, Arr(<<tx>>), Arr(<<InternalTx, tx>>)}

ResolveStart ==
    /\ resolvePc = "called"
    /\ \E queue \in PendingQueues, diffs \in DetailDiffs :
          \E body \in DetailBodies(DetailTx("request_withdrawal", queue, diffs)) :
              detail = HttpOk(body)
    /\ expectedStxtzAmount \in {1000000, 2000000}
    /\ xtzResult = None

\* the detail request is answered and the function returns
ResolveReturn ==
    /\ resolvePc = "called"
    /\ xtzResult' = fetchWithdrawalAmountByHash(detail, expectedStxtzAmount)
    /\ resolvePc' = "returned"
    /\ UNCHANGED <<detail, expectedStxtzAmount>>
    /\ UNCHANGED <<chartVars, fetchVars, auditVars, proxyVars, walletVars, loadVars>>

ResolveNext == ResolveReturn

----------------------------------------------------------------------------
(* Chart specification: the bakery feed is normalised, then both operation *)
(* lists are aggregated.                                                   *)

\* most operations handed to one aggregation, both sources together
MaxChartOps == 3
Days == {1, 2, 3}

BakeryAmounts == {0, 2000000, 5000000}

BakeryRecords ==
    [timestamp : {Timestamp(d) : d \in Days},
     action    : BakeryActions,
     amount    : BakeryAmounts]

\* the feed lists operations oldest first
Chronological(feed) ==
    \A k \in 1..(Len(feed) - 1) : feed[k].timestamp.date <= feed[k + 1].timestamp.date

StxtzChartOps ==
    [timestamp : {Timestamp(d) : d \in Days},
     type      : {"stake", "unstake", "finalize"},
     amount    : {MutezToTez(3000000)},
     source    : {"stxtz"},
     sender    : {"tz1a"}]

ChartStart ==
    /\ chartPc = "init"
    /\ bakeryData \in {f \in SeqsUpTo(BakeryRecords, MaxChartOps) : Chronological(f)}
    /\ bakeryOps = <<>>
    /\ stxtzOps \in SeqsUpTo(StxtzChartOps, MaxChartOps - Len(bakeryData))
    /\ chartData = EmptyChart

FetchBakeryStaking ==
    /\ chartPc = "init"
    /\ bakeryOps' = NormalizeBakery(bakeryData)
    /\ chartPc' = "fetched"
    /\ UNCHANGED <<bakeryData, stxtzOps, chartData>>
    /\ UNCHANGED <<fetchVars, auditVars, proxyVars>>
    /\ UNCHANGED <<walletVars, loadVars, resolveVars>>

ProcessChartData ==
    /\ chartPc = "fetched"
    /\ chartData' = processChartData(bakeryOps, stxtzOps)
    /\ chartPc' = "done"
    /\ UNCHANGED <<bakeryData, bakeryOps, stxtzOps>>
    /\ UNCHANGED <<fetchVars, auditVars, proxyVars>>
    /\ UNCHANGED <<walletVars, loadVars, resolveVars>>

ChartNext == FetchBakeryStaking \/ ProcessChartData

ChartInit == ChartStart /\ FetchIdle /\ AuditIdle /\ ProxyIdle
    /\ WalletIdle /\ LoadIdle /\ ResolveIdle

SpecChart == ChartInit /\ [][ChartNext]_vars

----------------------------------------------------------------------------
(* Properties of the daily aggregation                                     *)

TezOf(w) == Tez(w, 0)

ChartDone == chartPc = "done"

SeriesNames ==
    {"bakeryStakes", "bakeryUnstakes", "bakeryFinalize", "stxtzDeposits",
     "stxtzWithdrawals", "stxtzFinalize", "bakeryBalance", "stxtzBalance"}

RECURSIVE SumWhere(_, _, _)
\* total amount of the operations of one kind on one date
SumWhere(ops, type, date) ==
    IF ops = <<>> THEN TezZero
    ELSE LET rest == SumWhere(Tail(ops), type, date)
         IN  IF Head(ops).type = type /\ Head(ops).timestamp.date = date
             THEN TezAdd(Head(ops).amount, rest) ELSE rest

RECURSIVE SumPrefix(_, _)
SumPrefix(series, n) ==
    IF n = 0 THEN TezZero ELSE TezAdd(SumPrefix(series, n - 1), series[n])

\* C3 (as claimed): stake 5,000,000 on day D, finalize 2,000,000 on day D+1,
\* empty proxy feed: two buckets D, D+1 with stake 5.0 / 0, finalize 0 / 2.0
\* and running bakery balance 5.0 / 3.0.
C3_TwoBuckets ==
    \A d \in Days :
        ( /\ ChartDone
          /\ d + 1 \in Days
          /\ bakeryData = <<[timestamp |-> Timestamp(d), action |-> "stake",
                              amount |-> 5000000],
                            [timestamp |-> Timestamp(d + 1), action |-> "finalize",
                              amount |-> 2000000]>>
          /\ stxtzOps = <<>> )
        => /\ chartData.labels = <<d, d + 1>>
           /\ chartData.bakeryStakes = <<TezOf(5), TezZero>>
           /\ chartData.bakeryFinalize = <<TezZero, TezOf(2)>>
           /\ chartData.bakeryBalance = <<TezOf(5), TezOf(3)>>

\* what the code yields in the C3 scenario: the single bucket D, the finalize
\* of day D+1 has no bucket and is dropped
C3_CodeYieldsOneBucket ==
    \A d \in Days :
        ( /\ ChartDone
          /\ d + 1 \in Days
          /\ bakeryData = <<[timestamp |-> Timestamp(d), action |-> "stake",
                              amount |-> 5000000],
                            [timestamp |-> Timestamp(d + 1), action |-> "finalize",
                              amount |-> 2000000]>>
          /\ stxtzOps = <<>> )
        => /\ chartData.labels = <<d>>
           /\ chartData.bakeryStakes = <<TezOf(5)>>
           /\ chartData.bakeryFinalize = <<TezZero>>
           /\ chartData.bakeryBalance = <<TezOf(5)>>

LabelsAscending ==
    \A k \in 1..(Len(chartData.labels) - 1) :
        chartData.labels[k] < chartData.labels[k + 1]

LabelsAreNonFinalizeDates ==
    Range(chartData.labels) =
        {o.timestamp.date : o \in {x \in Range(bakeryOps) \cup Range(stxtzOps) :
                                       x.type \in {"stake", "unstake"}}}

SeriesAligned ==
    /\ \A n \in SeriesNames : Len(chartData[n]) = Len(chartData.labels)
    /\ \A k \in 1..Len(chartData.labels) :
         LET d == chartData.labels[k] IN
         /\ chartData.bakeryStakes[k] = SumWhere(bakeryOps, "stake", d)
         /\ chartData.bakeryUnstakes[k] = SumWhere(bakeryOps, "unstake", d)
         /\ chartData.bakeryFinalize[k] = SumWhere(bakeryOps, "finalize", d)
         /\ chartData.stxtzDeposits[k] = SumWhere(stxtzOps, "stake", d)
         /\ chartData.stxtzWithdrawals[k] = SumWhere(stxtzOps, "unstake", d)
         /\ chartData.stxtzFinalize[k] = SumWhere(stxtzOps, "finalize", d)

\* consecutive labels are consecutive calendar days
LabelsCalendarContiguous ==
    \A k \in 1..(Len(chartData.labels) - 1) :
        chartData.labels[k + 1] = chartData.labels[k] + 1

BalanceIsPrefixSum(balance, stakes, finalizes) ==
    \A k \in 1..Len(balance) :
        balance[k] = TezSub(SumPrefix(stakes, k), SumPrefix(finalizes, k))

NonDecreasingIfCovered(balance, stakes, finalizes) ==
    (\A k \in 1..Len(balance) : TezLeq(finalizes[k], stakes[k]))
    => /\ \A k \in 1..(Len(balance) - 1) : TezLeq(balance[k], balance[k + 1])
       /\ \A k \in 1..Len(balance) : ~TezIsNeg(balance[k])

\* C7: per source, the running balance at bucket i is the sum over buckets
\* 0..i of (stake - finalize); unstake amounts do not enter it; it is
\* non-decreasing when finalize <= stake on every day.
C7_RunningBalance ==
    ChartDone =>
        /\ BalanceIsPrefixSum(chartData.bakeryBalance, chartData.bakeryStakes,
                              chartData.bakeryFinalize)
        /\ BalanceIsPrefixSum(chartData.stxtzBalance, chartData.stxtzDeposits,
                              chartData.stxtzFinalize)
        /\ NonDecreasingIfCovered(chartData.bakeryBalance, chartData.bakeryStakes,
                                  chartData.bakeryFinalize)
        /\ NonDecreasingIfCovered(chartData.stxtzBalance, chartData.stxtzDeposits,
                                  chartData.stxtzFinalize)

\* excess finalization: a negative running balance, on a day that also has
\* an unstake
C7_Witness ==
    /\ ChartDone
    /\ \E k \in 1..Len(chartData.labels) :
          /\ TezIsNeg(chartData.bakeryBalance[k])
          /\ chartData.bakeryUnstakes[k] # TezZero
          /\ TezIsNeg(chartData.stxtzBalance[k])

----------------------------------------------------------------------------
(* Pagination specification and its properties                             *)

ChartIdle ==
    /\ chartPc = "idle"
    /\ bakeryData = <<>>
    /\ bakeryOps = <<>>
    /\ stxtzOps = <<>>
    /\ chartData = EmptyChart

FetchInit == FetchStart /\ ChartIdle /\ AuditIdle /\ ProxyIdle
    /\ WalletIdle /\ LoadIdle /\ ResolveIdle

SpecFetch == FetchInit /\ [][FetchNext]_vars

RECURSIVE ConcatItems(_)
ConcatItems(resps) ==
    IF resps = <<>> THEN <<>> ELSE Head(resps).items \o ConcatItems(Tail(resps))

PageLen(k) == Len(received[k].items)

\* C8: requests go out at offsets 0, N, 2N, ... one at a time; a request
\* follows only full pages; the fetch returns right after the first page
\* shorter than N and not before, with all pages concatenated in request
\* order; after full pages only, the loop is still running.
C8_Pagination ==
    /\ \A k \in 1..Len(requested) : requested[k] = (k - 1) * pageSize
    /\ Len(requested) - Len(received) = (IF fetchPc = "await" THEN 1 ELSE 0)
    /\ \A k \in 1..Len(requested) : \A j \in 1..(k - 1) :
          PageAccepted(received[j]) /\ PageLen(j) = pageSize
    /\ fetchPc = "returned" =>
          /\ received # <<>>
          /\ PageLen(Len(received)) < pageSize
          /\ allData = ConcatItems(received)
    /\ (fetchPc = "loop" /\ \A k \in 1..Len(received) : PageLen(k) = pageSize)
          => hasMore /\ offset = Len(received) * pageSize
    /\ (fetchPc = "loop" /\ received # <<>> /\ PageLen(Len(received)) < pageSize)
          => ~hasMore

\* a fetch returned after two full pages and an empty third page
C8_Witness ==
    /\ fetchPc = "returned"
    /\ pageSize = 2
    /\ requested = <<0, 2, 4>>
    /\ allData = Rows(0, 4)

\* C9 (as claimed): once a page request did not succeed (network failure or
\* non-success status) the fetch never returns records and no element of the
\* unsuccessful body is in the result.
C9_FailedPageAbandonsFetch ==
    (\E k \in 1..Len(received) : ~(received[k].net /\ received[k].ok))
    => /\ fetchPc # "returned"
       /\ \A k \in 1..Len(received) :
            ~(received[k].net /\ received[k].ok)
            => Range(received[k].items) \cap Range(allData) = {}

----------------------------------------------------------------------------
(* Matching specification and its properties                               *)

AuditInit == AuditStart /\ ChartIdle /\ FetchIdle /\ ProxyIdle
    /\ WalletIdle /\ LoadIdle /\ ResolveIdle

SpecAudit == AuditInit /\ [][AuditNext]_vars

AuditCounts ==
    auditPc # "idle" =>
        /\ matchedFinalizes + Len(unmatchedFinalizes) = auditIdx
        /\ auditPc = "done" => auditIdx = Len(finalizeAmounts)
        /\ matchedFinalizes <= Len(convertedWithdrawals)
        /\ Len(matchableWithdrawals) = Len(convertedWithdrawals) - matchedFinalizes
        /\ ( /\ auditPc = "done"
             /\ finalizeAmounts = <<MutezToTez(10000000), MutezToTez(20000000)>>
             /\ convertedWithdrawals = <<MutezToTez(20050000), MutezToTez(10020000)>> )
           => matchedFinalizes = 2 /\ unmatchedFinalizes = <<>>

\* what one loop iteration does to the pool and the counts
AuditFirstFit ==
    (auditPc = "loop" /\ auditIdx' = auditIdx + 1) =>
        LET f    == finalizeAmounts[auditIdx + 1]
            hits == {k \in 1..Len(matchableWithdrawals) :
                        WithinTolerance(matchableWithdrawals[k], f)}
        IN  IF hits = {}
            THEN /\ matchableWithdrawals' = matchableWithdrawals
                 /\ matchedFinalizes' = matchedFinalizes
                 /\ unmatchedFinalizes' = Append(unmatchedFinalizes, f)
            ELSE LET first == CHOOSE k \in hits : \A j \in hits : k <= j
                 IN  /\ matchableWithdrawals' =
                          SubSeq(matchableWithdrawals, 1, first - 1)
                          \o SubSeq(matchableWithdrawals, first + 1,
                                    Len(matchableWithdrawals))
                     /\ matchedFinalizes' = matchedFinalizes + 1
                     /\ unmatchedFinalizes' = unmatchedFinalizes

\* C10: finalizes are processed in order; each takes the first withdrawal
\* still in the pool within 0.1, which leaves the pool, else it is recorded as
\* unmatched; matched + unmatched = finalizes processed, matched <= number of
\* withdrawals; [10.0, 20.0] against [20.05, 10.02] matches both.
C10_GreedyFirstFit == [](AuditCounts) /\ [][AuditFirstFit]_vars

\* the example of the claim, matched completely
C10_Witness ==
    /\ auditPc = "done"
    /\ finalizeAmounts = <<MutezToTez(10000000), MutezToTez(20000000)>>
    /\ convertedWithdrawals = <<MutezToTez(20050000), MutezToTez(10020000)>>
    /\ matchedFinalizes = 2
    /\ matchableWithdrawals = <<>>

----------------------------------------------------------------------------
(* Proxy specification and its properties                                  *)

ProxyInit == ProxyStart /\ ChartIdle /\ FetchIdle /\ AuditIdle
    /\ WalletIdle /\ LoadIdle /\ ResolveIdle

SpecProxy == ProxyInit /\ [][ProxyNext]_vars

InFlight == proxyPc = "inflight"

\* the feed record a task of the running batch resolves
TaskOp(k) == data[withdrawals[tasks[k].w].op]

\* the raw amount of a feed record: the parameter value of a withdrawal
\* request, the transferred amount of every other transaction
RawAmount(rec) ==
    IF rec.entrypoint = "request_withdrawal" THEN StxtzAmountOf(rec) ELSE rec.amount

\* the xtz_amount values a detail response carries in entries with both fields
XtzAmountsIn(id) ==
    LET body == DetailResponse(id).body
        es   == IF body = InvalidJson THEN <<>> ELSE findXtzAmountEntries(body)
    IN  {MutezToTez(ParseInt(es[k].xtz_amount.v)) : k \in 1..Len(es)}

\* C1 (as claimed): the cache is keyed by (hash, counter): two withdrawal
\* requests that differ in hash or counter never share a cache entry, and a
\* cache hit returns the amount that was resolved for the very request that
\* hits.
C1_CacheKeyedByHashCounter ==
    /\ \A v, w \in 1..Len(withdrawals) :
         RequestOf(data[withdrawals[v].op]) # RequestOf(data[withdrawals[w].op])
            => CacheKey(data[withdrawals[v].op]) # CacheKey(data[withdrawals[w].op])
    /\ InFlight =>
         \A k \in 1..Len(tasks) :
            tasks[k].how = "hit" => tasks[k].from = RequestOf(TaskOp(k))

\* C2 (as claimed): every operation returned has amount >= 0, and no raw
\* feed record whose amount is zero produces an output operation (each
\* record produces at most one operation, so the output is no longer than the
\* number of records with a positive raw amount).
C2_NoZeroAmountOutput ==
    proxyPc = "returned" =>
        /\ \A k \in 1..Len(operations) : ~TezIsNeg(operations[k].amount)
        /\ Len(operations) <=
             Cardinality({k \in 1..Len(data) : RawAmount(data[k]) > 0})

\* C4 (as claimed): once a request has been resolved by a successful lookup
\* and the cache holds what that lookup stored (whatever the amount, 0
\* included), resolving the request again waits for no detail lookup and
\* returns the stored amount.
C4_CacheIdempotence ==
    InFlight =>
        \A k \in 1..Len(tasks) :
            LET key == CacheKey(TaskOp(k))
                m   == withdrawalCache.m
            IN  (key \in DOMAIN m /\ m[key].by = RequestOf(TaskOp(k)))
                    => \/ tasks[k].how = "hit" /\ tasks[k].amount = m[key].amount
                       \/ tasks[k].how = "resolved"

\* the step in which the detail request of callback k is answered
LookupAnswered(k) ==
    /\ k <= Len(tasks)
    /\ k <= Len(tasks')
    /\ InFlight
    /\ tasks[k].pc = "lookup"
    /\ tasks'[k].pc = "done"

C5_FailedLookupStep ==
    \A k \in 1..BATCH_SIZE :
        (LookupAnswered(k) /\ FailedLookup(tasks'[k].resp))
            => /\ proxyPc' = "inflight"
               /\ tasks'[k].how = "fallback"
               /\ tasks'[k].amount = MutezToTez(withdrawals[tasks[k].w].stxtzAmount)
               /\ withdrawalCache' = withdrawalCache

C5_OnlyResolvedWritten ==
    (InFlight /\ withdrawalCache' # withdrawalCache)
        => \E k \in 1..BATCH_SIZE :
              /\ LookupAnswered(k)
              /\ ~FailedLookup(tasks'[k].resp)
              /\ withdrawalCache'.m =
                    CachePut(withdrawalCache.m, CacheKey(TaskOp(k)),
                             tasks'[k].amount, RequestOf(TaskOp(k)))
              /\ tasks'[k].amount \in XtzAmountsIn(tasks'[k].resp)

\* C5: when the detail lookup of a request fails (no answer, a non-success
\* status, no entry with both amount fields) the callback does not throw,
\* returns the derivative amount / 1,000,000 and leaves the cache as it was;
\* the cache is only ever written with an amount a successful lookup gave.
C5_FallbackNotCached ==
    [][C5_FailedLookupStep /\ C5_OnlyResolvedWritten]_vars

\* a lookup answered 404 has fallen back to 2.0 for a request of 2,000,000
\* and the cache has no entry under the request's key
C5_Witness ==
    /\ InFlight
    /\ \E k \in 1..Len(tasks) :
          /\ tasks[k].how = "fallback"
          /\ tasks[k].resp = "notFound"
          /\ tasks[k].amount = Tez(2, 0)
          /\ withdrawals[tasks[k].w].stxtzAmount = 2000000
          /\ CacheKey(TaskOp(k)) \notin DOMAIN withdrawalCache.m

\* the detail lookups in flight
LookupsInFlight == {k \in DOMAIN tasks : tasks[k].pc = "lookup"}

\* C11: at most 2 detail lookups are in flight at any moment, and batches
\* are strictly sequential: while a batch is running, every request of every
\* earlier batch has completed (its result is in the output) and the
\* callbacks that exist are those of the running batch only.
C11_BatchesSequential ==
    /\ Cardinality(LookupsInFlight) <= 2
    /\ Len(tasks) <= 2
    /\ InFlight =>
         /\ \A k \in DOMAIN tasks : tasks[k].w = batchStart + k
         /\ Len(convertedWithdrawals) = batchStart
         /\ batchStart % BATCH_SIZE = 0

\* the second batch has its lookup in flight after both requests of the
\* first batch completed, one by a lookup and one by a fallback or a hit
C11_Witness ==
    /\ InFlight
    /\ batchStart = 2
    /\ LookupsInFlight = {1}
    /\ Len(convertedWithdrawals) = 2
    /\ cacheMisses >= 2

\* both lookups of one batch are in flight together
C11_TwoInFlight == Cardinality(LookupsInFlight) = 2

\* the stored text is absent, no JSON, or JSON that is no mapping
CorruptOrAbsent(stored) ==
    stored.kind # "json" \/ stored.value.t # "map"

\* C12 (as claimed): whatever text is stored under the cache key (missing,
\* unparseable, JSON that is no mapping such as null), the pass does not
\* abort, and every withdrawal request is resolved as a cache miss.
C12_CorruptCacheIsEmpty ==
    /\ proxyPc # "thrown"
    /\ (InFlight /\ CorruptOrAbsent(localStorage)) =>
          \A k \in DOMAIN tasks : tasks[k].how # "hit"

----------------------------------------------------------------------------
(* Wallet specification and its properties                                 *)

WalletInit == WalletStart /\ ChartIdle /\ FetchIdle /\ AuditIdle /\ ProxyIdle
    /\ LoadIdle /\ ResolveIdle

SpecWallet == WalletInit /\ [][WalletNext]_vars

\* the operations processed so far that count for a wallet
Counted(address, type) ==
    {k \in 1..walletIdx : /\ walletOps[k].source = "stxtz"
                          /\ walletOps[k].sender = address
                          /\ walletOps[k].type = type}

RECURSIVE SumOps(_)
SumOps(ks) ==
    IF ks = {} THEN TezZero
    ELSE LET k == CHOOSE x \in ks : TRUE
         IN  TezAdd(walletOps[k].amount, SumOps(ks \ {k}))

\* the senders of the proxy-source operations processed so far
SendersSoFar ==
    {walletOps[k].sender : k \in {j \in 1..walletIdx :
        walletOps[j].source = "stxtz" /\ walletOps[j].sender # Null}}

\* one record per sender, each with the totals of its operations and
\* netPosition = totalDeposited - totalWithdrawn
WalletRecordsRight(records) ==
    /\ {records[k].address : k \in 1..Len(records)} = SendersSoFar
    /\ Len(records) = Cardinality(SendersSoFar)
    /\ \A k \in 1..Len(records) :
         LET r == records[k] IN
         /\ r.netPosition = TezSub(r.totalDeposited, r.totalWithdrawn)
         /\ r.totalDeposited = SumOps(Counted(r.address, "stake"))
         /\ r.totalWithdrawn = SumOps(Counted(r.address, "unstake"))
         /\ r.totalFinalized = SumOps(Counted(r.address, "finalize"))
         /\ r.depositCount = Cardinality(Counted(r.address, "stake"))
         /\ r.withdrawCount = Cardinality(Counted(r.address, "unstake"))
         /\ r.finalizeCount = Cardinality(Counted(r.address, "finalize"))

WalletInvariant ==
    /\ WalletRecordsRight(walletMap)
    /\ walletPc = "returned" =>
         /\ WalletRecordsRight(walletStats)
         /\ \A k \in 1..(Len(walletStats) - 1) :
               TezLeq(walletStats[k + 1].netPosition, walletStats[k].netPosition)

\* what one iteration may change, by the operation it consumed
WalletStepRight ==
    walletIdx' = walletIdx + 1 =>
        LET op  == walletOps[walletIdx']
            k   == WalletIndex(walletMap, op.sender)
            old == IF k = 0 THEN NewWallet(op.sender) ELSE walletMap[k]
            new == walletMap'[WalletIndex(walletMap', op.sender)]
        IN  IF WalletSkips(op) THEN walletMap' = walletMap
            ELSE /\ \A j \in 1..Len(walletMap) :
                       j # k => walletMap'[j] = walletMap[j]
                 /\ op.type = "finalize" =>
                       new = [old EXCEPT !.totalFinalized = TezAdd(@, op.amount),
                                         !.finalizeCount = @ + 1]

\* C14: calculateWalletStats returns exactly one record per distinct sender
\* of the proxy-source operations that carry a sender; operations without a
\* sender or of the bakery source change nothing; after every processed
\* operation netPosition = totalDeposited - totalWithdrawn for every wallet;
\* a finalize changes only totalFinalized and finalizeCount.
C14_WalletStats == []WalletInvariant /\ [][WalletStepRight]_vars

\* a wallet has staked and then finalized: its net position is the stake
C14_Witness ==
    /\ walletPc = "returned"
    /\ Len(walletOps) = 2
    /\ walletOps[1].type = "stake" /\ walletOps[2].type = "finalize"
    /\ walletOps[1].sender = "tz1a" /\ walletOps[2].sender = "tz1a"
    /\ walletOps[1].source = "stxtz" /\ walletOps[2].source = "stxtz"
    /\ Len(walletStats) = 1
    /\ walletStats[1].netPosition = walletOps[1].amount
    /\ walletStats[1].totalFinalized = walletOps[2].amount

----------------------------------------------------------------------------
(* Page load specification and its properties                              *)

LoadInit == LoadStart /\ ChartIdle /\ FetchIdle /\ AuditIdle /\ ProxyIdle
    /\ WalletIdle /\ ResolveIdle

\* the continuation of a settled await always runs
SpecLoad ==
    LoadInit /\ [][LoadNext]_vars /\ WF_vars(LoadRender) /\ WF_vars(LoadFail)

FeedFailed == bakeryFetch = Rejected \/ stxtzFetch = Rejected

\* nothing of the dashboard is shown unless every fetch has fulfilled, and
\* what is shown is computed from the results of both feeds
NoPartialDashboard ==
    /\ app \in {LoadingView, ErrorView}
         \/ /\ \A q \in {bakeryFetch, stxtzFetch, holdersFetch} : q.state = "fulfilled"
            /\ app = Dashboard(bakeryFetch.value, stxtzFetch.value, holdersFetch.value)
    /\ FeedFailed => app \in {LoadingView, ErrorView}
    /\ loadPc = "failed" <=> app = ErrorView

\* the error panel stays
FailureIsFinal == loadPc = "failed" => loadPc' = "failed" /\ app' = ErrorView

\* C13: both feed fetches are started together and awaited before anything
\* is aggregated or rendered; if either fails, in every order of completion,
\* the load ends in the failure state and nothing of the dashboard is ever
\* rendered from the feed that succeeded.
C13_NoPartialDashboard ==
    /\ []NoPartialDashboard
    /\ [][FailureIsFinal]_vars
    /\ (FeedFailed ~> [](app = ErrorView))

\* the proxy fetch has failed and the bakery fetch has delivered operations:
\* the error panel is shown
C13_Witness ==
    /\ stxtzFetch = Rejected
    /\ bakeryFetch.state = "fulfilled"
    /\ bakeryFetch.value # <<>>
    /\ holdersFetch.state = "fulfilled"
    /\ loadPc = "failed"
    /\ app = ErrorView

----------------------------------------------------------------------------
(* Resolver specification and its properties                               *)

ResolveInit == ResolveStart /\ ChartIdle /\ FetchIdle /\ AuditIdle /\ ProxyIdle
    /\ WalletIdle /\ LoadIdle

SpecResolve == ResolveInit /\ [][ResolveNext]_vars

\* the request_withdrawal transaction of the detail
DetailRequestTx ==
    LET txs == IF detail.body.t = "arr" THEN detail.body.items ELSE <<detail.body>>
    IN  txs[CHOOSE k \in 1..Len(txs) :
                Get(Get(txs[k], "parameter"), "entrypoint") = Str(<<"request_withdrawal">>)]

\* the withdrawal queue field of its storage, <<>> when it is no list
DetailQueue ==
    LET q == Get(Get(DetailRequestTx, "storage"), "pending_queue")
    IN  IF q.t = "arr" THEN q.items ELSE <<>>

\* the (base, derivative) pairs of the substructures with both amount
\* fields, in scan order
ScanPairs ==
    LET es == findXtzAmountEntries(DetailRequestTx)
    IN  [k \in 1..Len(es) |-> [xtz   |-> ParseInt(es[k].xtz_amount.v),
                               stxtz |-> ParseInt(es[k].stxtz_amount.v)]]

LastOfQueueMatches ==
    /\ DetailQueue # <<>>
    /\ ParseInt(Get(DetailQueue[Len(DetailQueue)], "stxtz_amount").v) = expectedStxtzAmount

ScanMatches == {k \in 1..Len(ScanPairs) : ScanPairs[k].stxtz = expectedStxtzAmount}

\* C15: on a successful detail lookup the base-token amount is that of the
\* last queue element when its derivative amount equals the expected amount;
\* otherwise that of the first substructure in scan order whose derivative
\* amount equals the expected amount, else that of the last substructure
\* found; with no substructure the result is the 1:1 approximation.
C15_ResolvedAmount ==
    resolvePc = "returned" =>
        LET amount == AmountAfter(xtzResult, expectedStxtzAmount) IN
        /\ LastOfQueueMatches =>
              xtzResult =
                Some(ParseInt(Get(DetailQueue[Len(DetailQueue)], "xtz_amount").v))
        /\ (~LastOfQueueMatches /\ ScanMatches # {}) =>
              xtzResult = Some(ScanPairs[SetMin(ScanMatches)].xtz)
        /\ (~LastOfQueueMatches /\ ScanMatches = {} /\ Len(ScanPairs) > 0) =>
              xtzResult = Some(ScanPairs[Len(ScanPairs)].xtz)
        /\ Len(ScanPairs) = 0 =>
              xtzResult = None /\ amount = MutezToTez(expectedStxtzAmount)
        /\ xtzResult # None => amount = MutezToTez(xtzResult[1])

\* the last queue element does not match, two substructures match (one in
\* the queue, one in the diffs) with different base amounts: the first in
\* scan order is returned
C15_Witness ==
    /\ resolvePc = "returned"
    /\ ~LastOfQueueMatches
    /\ Cardinality({ScanPairs[k].xtz : k \in ScanMatches}) = 2
    /\ xtzResult = Some(ScanPairs[SetMin(ScanMatches)].xtz)
    /\ xtzResult # Some(ScanPairs[Len(ScanPairs)].xtz)

----------------------------------------------------------------------------
(* Output of the resolver pass                                             *)

IsUnstake(op) == op.type = "unstake"

IsPositiveRequest(rec) ==
    rec.entrypoint = "request_withdrawal" /\ StxtzAmountOf(rec) > 0

\* the withdrawal requests of the feed with a positive amount, in feed order
PositiveRequests == SelectSeq(data, IsPositiveRequest)

\* C16: whatever the mix of cache hits, successful and failed lookups and
\* the order in which the lookups complete, the pass returns exactly one
\* unstake operation of source stxtz per request_withdrawal record with a
\* positive amount, with the record's timestamp and sender, in feed order;
\* a pass that throws has made no lookup.
C16_OneUnstakePerRequest ==
    /\ proxyPc = "returned" =>
         LET us == SelectSeq(operations, IsUnstake) IN
         /\ Len(us) = Len(PositiveRequests)
         /\ \A k \in 1..Len(us) :
               /\ us[k].timestamp = PositiveRequests[k].timestamp
               /\ us[k].sender = PositiveRequests[k].sender
               /\ us[k].source = "stxtz"
    /\ proxyPc = "thrown" => cacheMisses = 0 /\ withdrawalCache = JsNull

\* a second pass over three requests has returned after a cache hit and
\* lookups, one of which fell back to 2.0
C16_Witness ==
    /\ proxyPc = "returned"
    /\ pass = 2
    /\ Len(PositiveRequests) = 3
    /\ cacheHits >= 1
    /\ cacheMisses >= 1
    /\ \E k \in 1..Len(operations) :
          IsUnstake(operations[k]) /\ operations[k].amount = Tez(2, 0)

----------------------------------------------------------------------------
(* What the daily aggregation counts                                       *)

\* some non-finalize operation of either source has this date
DateHasBucket(date) ==
    \E o \in Range(bakeryOps) \cup Range(stxtzOps) :
        o.type # "finalize" /\ o.timestamp.date = date

CountsInChart(op) == op.type # "finalize" \/ DateHasBucket(op.timestamp.date)

SeriesTotal(series) == SumPrefix(series, Len(series))

\* one source: the per-day and total sums of its three kinds
SourceCounted(ops, stakes, unstakes, finalizes, balance) ==
    /\ \A k \in 1..Len(chartData.labels) :
         LET d == chartData.labels[k] IN
         /\ stakes[k] = SumWhere(ops, "stake", d)
         /\ unstakes[k] = SumWhere(ops, "unstake", d)
         /\ finalizes[k] = SumWhere(ops, "finalize", d)
         /\ balance[k] = TezAdd(IF k = 1 THEN TezZero ELSE balance[k - 1],
                                TezSub(stakes[k], finalizes[k]))
    /\ SeriesTotal(stakes) = TotalOf(ops, "stake")
    /\ SeriesTotal(unstakes) = TotalOf(ops, "unstake")
    /\ SeriesTotal(finalizes) = TotalOf(SelectSeq(ops, CountsInChart), "finalize")

====
